---------------------------- MODULE Spec2Model ----------------------------
(***************************************************************************)
(* A model of the Kachaka multi-map exporter                               *)
(* (python/demos/grpc_samples/multi_map_exporter.py) and of its local-only *)
(* sibling (test_multi_map_exporter_local.py).                             *)
(*                                                                         *)
(* The transfer script checks SSH connectivity, starts one thread per      *)
(* configured gRPC address, and each thread fetches the robot's map, writes *)
(* three local files and relays them to the edge PC with ssh/scp.  The      *)
(* local-only script does the fetch without check and relay.               *)
(*                                                                         *)
(* Strings the code inspects character by character (map names, serial     *)
(* numbers) are sequences of one-character strings; Str joins them into a  *)
(* plain string once they are only compared.  A 64-bit integer is kept as  *)
(* four 16-bit words (TLC's own integers are 32 bits wide), least          *)
(* significant first, the top word signed.                                 *)
(***************************************************************************)
EXTENDS Integers, Sequences, FiniteSets, TLC

\* ------------------------------------------------------------------ bounds

\* Number of configured robot addresses in Spec and FairSpec.
NumTargets == 2
\* Longest map name the robots of DataSpec report.
MaxLen == 2
\* Number of times the script is run in RerunSpec.
MaxRuns == 2

\* --------------------------------------------------------------- strings

RECURSIVE Str(_)
\* The plain string made of the characters of s.
Str(s) == IF s = <<>> THEN "" ELSE Head(s) \o Str(Tail(s))

AsciiLetters ==
    { "a","b","c","d","e","f","g","h","i","j","k","l","m",
      "n","o","p","q","r","s","t","u","v","w","x","y","z",
      "A","B","C","D","E","F","G","H","I","J","K","L","M",
      "N","O","P","Q","R","S","T","U","V","W","X","Y","Z" }

AsciiDigits == { "0","1","2","3","4","5","6","7","8","9" }

\* Alphanumeric characters outside ASCII (str.isalnum() is true of them):
\* a sample of the Unicode letters a map name can hold.
UnicodeAlnum == { "é", "日" }

\* Python 3 matches \w in a str pattern against the Unicode word characters:
\* every alphanumeric character of any script, and the underscore.
IsWordChar(c) == c \in AsciiLetters \cup AsciiDigits \cup {"_"} \cup UnicodeAlnum

\* The character class [^\w\-_\.] : what the pattern matches (and replaces).
MatchesPattern(c) == ~ (IsWordChar(c) \/ c \in {"-", "_", "."})

\* re.sub(r'[^\w\-_\.]', '_', filename): every match replaced by one '_'.
re_sub(filename) ==
    [i \in 1..Len(filename) |->
        IF MatchesPattern(filename[i]) THEN "_" ELSE filename[i]]

re_sub_dropping(filename) ==
    SelectSeq(filename, LAMBDA c : ~ MatchesPattern(c))

sanitize_filename(filename) == re_sub(filename)

\* The local-only script's own copy of sanitize_filename.
l_sanitize_filename(filename) == re_sub(filename)

\* ------------------------------------------------- 64-bit cursor encoding

Word == 65536
Byte == 256

\* The 64-bit signed integers, as <<w0, w1, w2, w3>> standing for
\* w0 + w1*2^16 + w2*2^32 + w3*2^48 with 0 <= w0,w1,w2 < 2^16 and
\* -2^15 <= w3 < 2^15.
IsInt64(v) ==
    /\ Len(v) = 4
    /\ \A i \in 1..3 : v[i] \in 0..(Word - 1)
    /\ v[4] \in (-(Word \div 2))..((Word \div 2) - 1)

\* The 64-bit value of a (32-bit) integer n.
I64(n) ==
    LET q1 == n \div Word
        q2 == q1 \div Word
    IN  << n % Word, q1 % Word, q2 % Word, q2 \div Word >>

Int64Min == << 0, 0, 0, -(Word \div 2) >>
Int64Max == << Word - 1, Word - 1, Word - 1, (Word \div 2) - 1 >>

\* The two bytes of one 16-bit word in two's complement, low byte first.
WordBytesLE(w) == << w % Byte, (w \div Byte) % Byte >>

\* struct.pack("<q", v): 8 bytes, least significant first, two's complement.
pack_le(v) ==
    WordBytesLE(v[1]) \o WordBytesLE(v[2]) \o WordBytesLE(v[3]) \o WordBytesLE(v[4])

Reverse(s) == [i \in 1..Len(s) |-> s[Len(s) + 1 - i]]

pack_be(v) == Reverse(pack_le(v))

struct_pack_q(v) == pack_le(v)

\* struct.unpack("<q", b)[0] for an 8-byte buffer: the top byte carries the sign.
unpack_le_signed(b) ==
    << b[1] + Byte * b[2],
       b[3] + Byte * b[4],
       b[5] + Byte * b[6],
       b[7] + Byte * b[8] - (IF b[8] >= Byte \div 2 THEN Word ELSE 0) >>

unpack_le_unsigned(b) ==
    << b[1] + Byte * b[2], b[3] + Byte * b[4], b[5] + Byte * b[6], b[7] + Byte * b[8] >>

struct_unpack_q(b) == unpack_le_signed(b)

\* binary_file.read(8): at most the first 8 bytes of the file.
read8(content) == SubSeq(content, 1, IF Len(content) < 8 THEN Len(content) ELSE 8)


\* ---------------------------------------------------------- configuration

\* EDGE_PC_MAP_DIR, the directory of the edge PC the maps are copied under.
EDGE_PC_MAP_DIR == "/usr/local/share/hats_sdk/map/"

\* EDGE_PC_USERNAME@EDGE_PC_IP, the account every ssh and scp command names.
EDGE_PC_LOGIN == "qtmember@192.168.2.183"

\* ------------------------------------------------------------------ state

VARIABLES
    GRPC_CHANNEL_ADDRESSES, \* the configured addresses, one per robot
    robot,          \* what the robot behind each address answers
    main_pc,        \* where main() of the transfer script is
    ssh_rc,         \* how the connectivity check's command ended ("" before)
    threads,        \* main's list of started threads
    joined,         \* how many of them main has joined
    run,            \* how many times the script has been started
    t,              \* the frame of get_map_data in each thread
    history,        \* per address, how each finished get_map_data ended
    dirs, files,    \* the local file system: directories, path -> content
    rdirs, rfiles,  \* the edge PC's file system
    lm,             \* main() of the local-only script
    lt,             \* the frame of the local-only get_map_data in each thread
    l_dirs, l_files \* the file system the local-only script runs in

envVars    == << GRPC_CHANNEL_ADDRESSES, robot >>
mainVars   == << main_pc, ssh_rc, threads, joined, run >>
fsVars     == << dirs, files >>
remoteVars == << rdirs, rfiles >>
localVars  == << lm, lt, l_dirs, l_files >>
vars == << GRPC_CHANNEL_ADDRESSES, robot, main_pc, ssh_rc, threads, joined, run, t,
           history, dirs, files, rdirs, rfiles, lm, lt, l_dirs, l_files >>

Units == 1..Len(GRPC_CHANNEL_ADDRESSES)

\* The robot thread u talks to.
Robot(u) == robot[GRPC_CHANNEL_ADDRESSES[u]]

\* The four calls get_map_data issues, in the order of the code.
RpcOrder == << "GetRobotSerialNumber", "GetCurrentMapId", "GetRobotVersion", "GetPngMap" >>

\* A GetPngMap response before any was received.
NoMap == [name |-> <<>>, data |-> "", geometry |-> "", cursor |-> << 0, 0, 0, 0 >>]

\* The locals of get_map_data before its first statement.
NewFrame ==
    [pc |-> "idle", robot_serial_number |-> <<>>, response |-> NoMap,
     map_name |-> <<>>, cursor_value_read |-> << 0, 0, 0, 0 >>,
     calls |-> <<>>, saved |-> <<>>, cmds |-> <<>>, err |-> ""]

\* The locals of the local-only get_map_data before its first statement.
NewLocalFrame ==
    [pc |-> "idle", robot_serial_number |-> <<>>, folder_name |-> "",
     response |-> NoMap, map_name |-> <<>>, cursor_value_read |-> << 0, 0, 0, 0 >>,
     calls |-> <<>>, saved |-> <<>>, err |-> ""]

NoFiles == [p \in {} |-> <<>>]

InitWith(n, Robots) ==
    /\ GRPC_CHANNEL_ADDRESSES = [i \in 1..n |-> i]
    /\ robot \in [1..n -> Robots]
    /\ main_pc = "check_ssh"
    /\ ssh_rc = ""
    /\ threads = <<>>
    /\ joined = 0
    /\ run = 1
    /\ t = [u \in 1..n |-> NewFrame]
    /\ history = [u \in 1..n |-> <<>>]
    /\ dirs = {}
    /\ files = NoFiles
    /\ rdirs = {}
    /\ rfiles = NoFiles
    /\ lm = [pc |-> "spawn", threads |-> <<>>, joined |-> 0]
    /\ lt = [u \in 1..n |-> NewLocalFrame]
    /\ l_dirs = {}
    /\ l_files = NoFiles

\* ------------------------------------------------------------ file names

fixed_png_filename(map_name) == "map.png"

\* png_filename = f"{filename_prefix}.png", and the two metadata files
png_filename(map_name) == Str(map_name) \o ".png"
yaml_filename(map_name) == Str(map_name) \o "_metadata.yaml"
bin_filename(map_name) == Str(map_name) \o "_metadata.bin"

shared_robot_dir(robot_serial_number) == "Kachaka_"

\* robot_dir = f"Kachaka_{robot_serial_number}"
robot_dir(robot_serial_number) == "Kachaka_" \o Str(robot_serial_number)

prefixed_folder_name(robot_serial_number) ==
    "Kachaka_" \o Str(l_sanitize_filename(robot_serial_number))

\* folder_name = sanitize_filename(robot_serial_number), the local-only script's
l_folder_name(robot_serial_number) == Str(l_sanitize_filename(robot_serial_number))

\* os.path.join(directory, filename), for a filename that holds no separator.
os_path_join(directory, filename) == [dir |-> directory, file |-> filename]

\* The directory on the edge PC: f"{EDGE_PC_MAP_DIR}{robot_id}".
remote_dir(robot_id) == EDGE_PC_MAP_DIR \o robot_id

\* map_metadata, the dictionary yaml.dump writes.
map_metadata(response) == [name |-> response.name, geometry |-> response.geometry]

\* f with path p (over)written with content c.
WriteFile(f, p, c) == (p :> c) @@ f


\* ------------------------------------------------------- external commands

\* How a subprocess.run(..., check=True) can end: exit status 0, a non-zero
\* exit status (CalledProcessError), or the command could not be started
\* (sshpass is not installed: OSError).
CmdOutcomes == { "ok", "nonzero", "oserror" }

\* The exit statuses of a command of the relay (the connectivity check has
\* shown by then that sshpass starts).
ExitStatuses == { "ok", "nonzero" }

subprocess_run_unchecked(rc) == TRUE

\* Whether subprocess.run(command, check=True) returns (rather than raises).
subprocess_run_check(rc) == rc = "ok"

always_connected(rc) == TRUE

\* check_ssh_connection's result when its command ran: True on exit status 0,
\* False on CalledProcessError.
check_ssh_connection(rc) == rc = "ok"

\* ------------------------------------------------- get_map_data: the frame

Finished == { "done", "failed" }

CaughtEverywhere(u, frame, kind) ==
    [v \in DOMAIN t |->
        IF v = u THEN [frame EXCEPT !.pc = "failed", !.err = kind]
        ELSE [t[v] EXCEPT !.pc = IF @ = "idle" THEN @ ELSE "failed"]]

\* The except clauses of get_map_data: the error is logged and the function
\* returns; only thread u's frame changes.
Caught(u, frame, kind) ==
    [t EXCEPT ![u] = [frame EXCEPT !.pc = "failed", !.err = kind]]

\* What one finished get_map_data leaves in the logs.
Outcome(frame) ==
    [ok |-> frame.pc = "done", prefix |-> Str(frame.map_name),
     map |-> frame.response, saved |-> frame.saved]

\* history, with the outcome of every thread that finishes in this step.
Recorded(old, new, h) ==
    [v \in DOMAIN h |->
        IF new[v].pc \in Finished /\ old[v].pc \notin Finished
        THEN Append(h[v], Outcome(new[v]))
        ELSE h[v]]

\* Thread u's frame after it issued call k.
Called(frame, k) == [frame EXCEPT !.calls = Append(@, RpcOrder[k])]

\* ---------------------------------------------------- get_map_data: calls

\* How a blocking request can end: a response, or grpc.RpcError (the robot
\* cannot be reached, or it fails the call).
RpcOutcomes == { "ok", "error" }

\* The robot behind address a answers call k of a run the same way whoever
\* asks: the first script to issue call k finds out how (o), the other gets
\* the answer on record.
Answer(a, k, o) == IF k <= Len(robot[a].answers) THEN robot[a].answers[k] ELSE o

Answered(a, k, o) ==
    IF k <= Len(robot[a].answers) THEN robot
    ELSE [robot EXCEPT ![a].answers = Append(@, o)]

\* One blocking request of thread u: it raises grpc.RpcError on an error.
Call(u, k, received) ==
    /\ u \in Units
    /\ t[u].pc = RpcOrder[k]
    /\ \E o \in RpcOutcomes :
        /\ t' = IF Answer(GRPC_CHANNEL_ADDRESSES[u], k, o) = "ok"
                THEN [t EXCEPT ![u] = received]
                ELSE Caught(u, Called(t[u], k), "RpcError")
        /\ robot' = Answered(GRPC_CHANNEL_ADDRESSES[u], k, o)
    /\ history' = Recorded(t, t', history)
    /\ UNCHANGED << GRPC_CHANNEL_ADDRESSES, mainVars, fsVars, remoteVars, localVars >>

GetRobotSerialNumber(u) ==
    Call(u, 1, [Called(t[u], 1) EXCEPT !.robot_serial_number = Robot(u).serial,
                                       !.pc = RpcOrder[2]])

GetCurrentMapId(u) ==
    Call(u, 2, [Called(t[u], 2) EXCEPT !.pc = RpcOrder[3]])

GetRobotVersion(u) ==
    Call(u, 3, [Called(t[u], 3) EXCEPT !.pc = RpcOrder[4]])

GetPngMap(u) ==
    Call(u, 4, [Called(t[u], 4) EXCEPT !.response = Robot(u).map,
                                       !.map_name = sanitize_filename(Robot(u).map.name),
                                       !.pc = "makedirs"])

\* ------------------------------------------------ get_map_data: local files

LocalDir(frame) == robot_dir(frame.robot_serial_number)

PngPath(frame) == os_path_join(LocalDir(frame), png_filename(frame.map_name))
YamlPath(frame) == os_path_join(LocalDir(frame), yaml_filename(frame.map_name))
BinPath(frame) == os_path_join(LocalDir(frame), bin_filename(frame.map_name))

\* A step on the local file system: it succeeds, leaving frame `next` and the
\* file system (d, f), or raises OSError and leaves the file system as it was.
\* The error is caught by "except Exception".
LocalStep(u, at, next, d, f) ==
    /\ u \in Units
    /\ t[u].pc = at
    /\ \/ /\ t' = [t EXCEPT ![u] = next]
          /\ dirs' = d
          /\ files' = f
       \/ /\ t' = Caught(u, t[u], "Exception")
          /\ UNCHANGED fsVars
    /\ history' = Recorded(t, t', history)
    /\ UNCHANGED << envVars, mainVars, remoteVars, localVars >>

\* os.makedirs(robot_dir, exist_ok=True)
MakeDirs(u) ==
    LocalStep(u, "makedirs", [t[u] EXCEPT !.pc = "open_png"],
              dirs \cup { LocalDir(t[u]) }, files)

\* open(path, "wb") and open(path, "w") create the file or truncate it; its
\* content arrives when the with block writes and closes it.
Empty == <<>>

\* with open(os.path.join(robot_dir, png_filename), "wb") as binary_file:
OpenPng(u) ==
    LocalStep(u, "open_png", [t[u] EXCEPT !.pc = "write_png"],
              dirs, WriteFile(files, PngPath(t[u]), Empty))

\* binary_file.write(response.map.data)
WritePng(u) ==
    LocalStep(u, "write_png",
              [t[u] EXCEPT !.pc = "open_yaml",
                           !.saved = Append(@, png_filename(t[u].map_name))],
              dirs, WriteFile(files, PngPath(t[u]), << t[u].response.data >>))

\* with open(os.path.join(robot_dir, yaml_filename), "w") as yaml_file:
OpenYaml(u) ==
    LocalStep(u, "open_yaml", [t[u] EXCEPT !.pc = "write_yaml"],
              dirs, WriteFile(files, YamlPath(t[u]), Empty))

\* yaml.dump(map_metadata, yaml_file, default_flow_style=False)
WriteYaml(u) ==
    LocalStep(u, "write_yaml",
              [t[u] EXCEPT !.pc = "open_bin",
                           !.saved = Append(@, yaml_filename(t[u].map_name))],
              dirs, WriteFile(files, YamlPath(t[u]), << map_metadata(t[u].response) >>))

\* with open(os.path.join(robot_dir, bin_filename), "wb") as binary_file:
OpenBin(u) ==
    LocalStep(u, "open_bin", [t[u] EXCEPT !.pc = "write_bin"],
              dirs, WriteFile(files, BinPath(t[u]), Empty))

\* binary_file.write(struct.pack("<q", cursor_value))
WriteBin(u) ==
    LocalStep(u, "write_bin",
              [t[u] EXCEPT !.pc = "read_bin",
                           !.saved = Append(@, bin_filename(t[u].map_name))],
              dirs, WriteFile(files, BinPath(t[u]), struct_pack_q(t[u].response.cursor)))

\* binary_data = open(bin, "rb").read(8); struct.unpack("<q", binary_data)[0]
\* raises struct.error unless 8 bytes were read.
ReadBin(u) ==
    /\ u \in Units
    /\ t[u].pc = "read_bin"
    /\ LET binary_data == read8(files[BinPath(t[u])])
       IN  \/ /\ Len(binary_data) = 8
              /\ t' = [t EXCEPT ![u] =
                         [@ EXCEPT !.pc = "create_remote_directory",
                                   !.cursor_value_read = struct_unpack_q(binary_data)]]
           \/ /\ Len(binary_data) # 8
              /\ t' = Caught(u, t[u], "Exception")
           \/ t' = Caught(u, t[u], "Exception")
    /\ history' = Recorded(t, t', history)
    /\ UNCHANGED << envVars, mainVars, fsVars, remoteVars, localVars >>


\* ---------------------------------------------------- get_map_data: relay

\* The relay of get_map_data, in the order of the code: the directory, then
\* the image, the metadata and the cursor.
RelayOrder == << "create_remote_directory", "scp_png", "scp_yaml", "scp_bin" >>

AfterRelay(k) == IF k < Len(RelayOrder) THEN RelayOrder[k + 1] ELSE "done"

\* One subprocess.run(command, check=True) of the relay. The command takes
\* effect on the edge PC (rd, rf) when it exits with status 0; the function
\* logs and re-raises CalledProcessError, which get_map_data catches with
\* "except Exception".
RelayStep(u, k, command, rd, rf) ==
    /\ u \in Units
    /\ t[u].pc = RelayOrder[k]
    /\ \E rc \in ExitStatuses :
        LET ran == [t[u] EXCEPT !.cmds = Append(@, [command |-> command, rc |-> rc])]
        IN  /\ t' = IF subprocess_run_check(rc)
                    THEN [t EXCEPT ![u] = [ran EXCEPT !.pc = AfterRelay(k)]]
                    ELSE Caught(u, ran, "Exception")
            /\ rdirs' = IF rc = "ok" THEN rd ELSE rdirs
            /\ rfiles' = IF rc = "ok" THEN rf ELSE rfiles
    /\ history' = Recorded(t, t', history)
    /\ UNCHANGED << envVars, mainVars, fsVars, localVars >>

\* sshpass -p password ssh user@ip "mkdir -p {EDGE_PC_MAP_DIR}{robot_id}"
MkdirCommand(robot_id) ==
    << "ssh", EDGE_PC_LOGIN, "mkdir -p " \o remote_dir(robot_id) >>

\* sshpass -p password scp source_file user@ip:{destination}{robot_id}/
ScpCommand(source_file, robot_id) ==
    << "scp", source_file.dir \o "/" \o source_file.file,
       EDGE_PC_LOGIN \o ":" \o remote_dir(robot_id) \o "/" >>

\* The edge PC's files after source_file was copied into robot_id's directory.
Copied(source_file, robot_id) ==
    WriteFile(rfiles, os_path_join(remote_dir(robot_id), source_file.file),
              files[source_file])

\* create_remote_directory(robot_dir, password)
CreateRemoteDirectory(u) ==
    RelayStep(u, 1, MkdirCommand(LocalDir(t[u])),
              rdirs \cup { remote_dir(LocalDir(t[u])) }, rfiles)

\* transfer_files_scp(os.path.join(robot_dir, png_filename), robot_dir, ...)
TransferPng(u) ==
    RelayStep(u, 2, ScpCommand(PngPath(t[u]), LocalDir(t[u])),
              rdirs, Copied(PngPath(t[u]), LocalDir(t[u])))

\* transfer_files_scp(os.path.join(robot_dir, yaml_filename), robot_dir, ...)
TransferYaml(u) ==
    RelayStep(u, 3, ScpCommand(YamlPath(t[u]), LocalDir(t[u])),
              rdirs, Copied(YamlPath(t[u]), LocalDir(t[u])))

\* transfer_files_scp(os.path.join(robot_dir, bin_filename), robot_dir, ...)
TransferBin(u) ==
    RelayStep(u, 4, ScpCommand(BinPath(t[u]), LocalDir(t[u])),
              rdirs, Copied(BinPath(t[u]), LocalDir(t[u])))

\* One step of thread u.
get_map_data(u) ==
    \/ GetRobotSerialNumber(u)
    \/ GetCurrentMapId(u)
    \/ GetRobotVersion(u)
    \/ GetPngMap(u)
    \/ MakeDirs(u)
    \/ OpenPng(u)
    \/ WritePng(u)
    \/ OpenYaml(u)
    \/ WriteYaml(u)
    \/ OpenBin(u)
    \/ WriteBin(u)
    \/ ReadBin(u)
    \/ CreateRemoteDirectory(u)
    \/ TransferPng(u)
    \/ TransferYaml(u)
    \/ TransferBin(u)

\* --------------------------------------------------------------------- main

\* if not check_ssh_connection(password): log_error(...); return
\* An exception other than CalledProcessError leaves main through the top.
CheckSsh ==
    /\ main_pc = "check_ssh"
    /\ \E rc \in CmdOutcomes :
        /\ ssh_rc' = rc
        /\ main_pc' = IF rc = "oserror" THEN "crashed"
                      ELSE IF check_ssh_connection(rc) THEN "spawn"
                      ELSE "aborted"
    /\ UNCHANGED << envVars, threads, joined, run, t, history, fsVars,
                    remoteVars, localVars >>

\* for address in GRPC_CHANNEL_ADDRESSES: thread = Thread(...); thread.start()
Spawn ==
    /\ main_pc = "spawn"
    /\ Len(threads) < Len(GRPC_CHANNEL_ADDRESSES)
    /\ LET u == Len(threads) + 1
       IN  /\ threads' = Append(threads, u)
           /\ t' = [t EXCEPT ![u].pc = RpcOrder[1]]
           /\ main_pc' = IF u = Len(GRPC_CHANNEL_ADDRESSES) THEN "join" ELSE "spawn"
    /\ UNCHANGED << envVars, ssh_rc, joined, run, history, fsVars, remoteVars,
                    localVars >>

never_waits(u) == TRUE

\* thread.join() returns once the thread's get_map_data has returned.
Joinable(u) == t[u].pc \in Finished

\* for thread in threads: thread.join(); then log "Map transfer process completed"
Join ==
    /\ main_pc = "join"
    /\ joined < Len(threads)
    /\ Joinable(threads[joined + 1])
    /\ joined' = joined + 1
    /\ main_pc' = IF joined + 1 = Len(threads) THEN "completed" ELSE "join"
    /\ UNCHANGED << envVars, ssh_rc, threads, run, t, history, fsVars, remoteVars,
                    localVars >>

Next ==
    \/ CheckSsh
    \/ Spawn
    \/ Join
    \/ \E u \in 1..NumTargets : get_map_data(u)

\* ------------------------------------------------------------------ robots

SerialA == << "A", "1" >>
SerialB == << "B", "2" >>

\* A map as GetPngMap returns it.
Map(name, cursor) ==
    [name |-> name, data |-> "png:" \o Str(name), geometry |-> "0.05 100x80 (1.0, 2.0, 0.0)",
     cursor |-> cursor]

\* A robot with serial number s and current map m, not yet asked anything.
RobotOf(s, m) == [serial |-> s, map |-> m, answers |-> <<>>]

Lobby == << "l", "o", "b", "b", "y" >>

\* Spec: two robots of a fleet, holding the same map at different cursors. Two
\* addresses may lead to the same robot.
SpecRobots ==
    { RobotOf(SerialA, Map(Lobby, I64(7))), RobotOf(SerialB, Map(Lobby, I64(-8))) }

\* Which serial number is which does not matter: the first address leads to
\* the first robot.
Init ==
    /\ InitWith(NumTargets, SpecRobots)
    /\ robot[1].serial = SerialA

Spec == Init /\ [][Next]_vars

\* FairSpec: every address leads to the one robot, so that all threads work in
\* one directory on the same three files and a thread may fail on what another
\* one wrote; whatever a thread does with a directory of its own it also does
\* here, when the others have finished before it starts writing.
FairInit ==
    /\ Init
    /\ \A a \in DOMAIN robot : robot[a].serial = SerialA

\* Every started thread is scheduled until it returns, and main runs: a call, a
\* file operation or a command that has been started returns or raises.
FairSpec ==
    /\ FairInit /\ [][Next]_vars
    /\ WF_vars(CheckSsh) /\ WF_vars(Spawn) /\ WF_vars(Join)
    /\ \A u \in 1..NumTargets : WF_vars(get_map_data(u))


\* ------------------------------------------------ properties of the threads

\* Nothing of a fetch has happened: no thread started, no call issued, no
\* file or directory written here or on the edge PC.
NothingFetched ==
    /\ threads = <<>>
    /\ \A u \in Units : t[u] = NewFrame /\ history[u] = <<>>
    /\ \A a \in DOMAIN robot : robot[a].answers = <<>>
    /\ dirs = {} /\ files = NoFiles
    /\ rdirs = {} /\ rfiles = NoFiles

\* The threads main has started are those of the first addresses of the
\* list, one each, in the order of the list.
OnePerTarget ==
    /\ Len(threads) <= Len(GRPC_CHANNEL_ADDRESSES)
    /\ \A i \in 1..Len(threads) : threads[i] = i
    /\ \A u \in Units : (t[u].pc # "idle") <=> (u <= Len(threads))

\* C2: when the connectivity check's command exits non-zero, main returns
\* without starting any thread: no call is issued, no local file written, no
\* remote copy attempted. When it exits zero main goes on to start the
\* threads, and once it joins them it has started one per configured address.
C2_AbortBeforeAnyFetch ==
    /\ ssh_rc = "" => main_pc = "check_ssh" /\ NothingFetched
    /\ ssh_rc = "nonzero" => main_pc = "aborted" /\ NothingFetched
    /\ ssh_rc = "oserror" => main_pc = "crashed" /\ NothingFetched
    /\ ssh_rc = "ok" =>
        /\ main_pc \in { "spawn", "join", "completed" }
        /\ OnePerTarget
        /\ main_pc \in { "join", "completed" } =>
              Len(threads) = Len(GRPC_CHANNEL_ADDRESSES)

C2_Aborted == main_pc = "aborted" /\ ssh_rc = "nonzero"

\* The names of the three files thread u writes, in the order it writes them.
ThreeFiles(frame) ==
    << png_filename(frame.map_name), yaml_filename(frame.map_name),
       bin_filename(frame.map_name) >>

ThreePaths(frame) == { PngPath(frame), YamlPath(frame), BinPath(frame) }

Running(u) == t[u].pc \notin { "idle", "done", "failed" }

\* Thread u is past its local writes.
PastLocalWrites(u) ==
    t[u].pc \in { "read_bin", "create_remote_directory", "scp_png", "scp_yaml",
                  "scp_bin", "done" }

\* The serial number of u's robot is no other thread's.
OwnSerial(u) == \A v \in Units \ {u} : Robot(v).serial # Robot(u).serial

\* What thread u has put into path p so far.
Written(u, p) ==
    IF p = PngPath(t[u])
      THEN IF Len(t[u].saved) >= 1 THEN << t[u].response.data >> ELSE Empty
    ELSE IF p = YamlPath(t[u])
      THEN IF Len(t[u].saved) >= 2 THEN << map_metadata(t[u].response) >> ELSE Empty
    ELSE IF Len(t[u].saved) >= 3 THEN struct_pack_q(t[u].response.cursor) ELSE Empty

\* Thread u's three files hold what thread u wrote.
FilesAsWritten(u) ==
    \A p \in ThreePaths(t[u]) : p \in DOMAIN files /\ files[p] = Written(u, p)

\* C3 as stated: whatever the addresses lead to and wherever a thread fails,
\* the other threads still produce their three files: once the others have
\* returned, failed or not, a thread that wrote its three files finds them as
\* it wrote them.
C3_OthersFilesWhateverFails ==
    \A u \in Units :
        (Len(t[u].saved) = 3 /\ \A k \in Units \ {u} : t[k].pc \in Finished) =>
            FilesAsWritten(u)

\* C3, amended: a failure in one thread never cancels or blocks another
\* thread. A thread ends failed only by an exception of its own; a running
\* thread can always take its next step, whatever the others did; the step in
\* which a thread fails leaves every other thread's frame as it was; a thread
\* that gets past its own writes has written its three files; and the files
\* of a thread whose robot's serial number is no other thread's stay as it
\* wrote them, whatever the other threads do and wherever they fail. (Threads
\* whose robots report the same serial number write the same files: one that
\* fails between opening a file and writing it leaves it empty for the other.)
C3_FailureIsolated ==
    /\ [](\A u \in Units :
            /\ t[u].pc = "failed" => t[u].err # ""
            /\ Running(u) => ENABLED get_map_data(u)
            /\ PastLocalWrites(u) =>
                  /\ t[u].saved = ThreeFiles(t[u])
                  /\ ThreePaths(t[u]) \subseteq DOMAIN files
            /\ (OwnSerial(u) /\ Len(t[u].saved) = 3) => FilesAsWritten(u))
    /\ [][\A k \in Units :
            (t[k].pc # "failed" /\ t'[k].pc = "failed") =>
                \A u \in Units \ {k} : t'[u] = t[u]]_vars

C3_OneFailedOthersWrote ==
    \E k \in Units :
        /\ t[k].pc = "failed"
        /\ \A u \in Units \ {k} :
              OwnSerial(u) /\ t[u].pc = "done" /\ Len(t[u].saved) = 3

\* C4: main starts exactly one thread per configured address, logs
\* "Map transfer process completed" only when every thread has returned,
\* failed or not, and, the threads being scheduled until they return, gets
\* there once the connectivity check has passed.
C4_JoinAll ==
    /\ [](OnePerTarget)
    /\ [](main_pc = "completed" =>
            /\ Len(threads) = Len(GRPC_CHANNEL_ADDRESSES)
            /\ joined = Len(threads)
            /\ \A u \in Units : t[u].pc \in Finished)
    /\ [](\A i \in 1..joined : t[threads[i]].pc \in Finished)
    /\ ((main_pc = "spawn") ~> (main_pc = "completed"))

C4_CompletedWithFailure ==
    /\ main_pc = "completed"
    /\ \E u, v \in Units : t[u].pc = "failed" /\ t[v].pc = "done"

\* The commands of thread u's relay, in the order of the code.
RelayCommands(frame) ==
    << MkdirCommand(LocalDir(frame)),
       ScpCommand(PngPath(frame), LocalDir(frame)),
       ScpCommand(YamlPath(frame), LocalDir(frame)),
       ScpCommand(BinPath(frame), LocalDir(frame)) >>

\* C5: a relay creates the remote directory, then copies the image, the
\* metadata and the cursor, one command each; the first command that exits
\* non-zero raises and is the thread's last, and no other thread's frame
\* changes with it.
C5_RelayOrder ==
    /\ [](\A u \in Units :
            LET n == Len(t[u].cmds)
            IN  /\ n <= 4
                /\ \A i \in 1..n : t[u].cmds[i].command = RelayCommands(t[u])[i]
                /\ \A i \in 1..n : t[u].cmds[i].rc # "ok" =>
                                      i = n /\ t[u].pc = "failed"
                /\ \A k \in 1..4 : t[u].pc = RelayOrder[k] => n = k - 1
                /\ t[u].pc = "done" => n = 4
                /\ (n > 0 /\ t[u].cmds[1].rc = "ok") =>
                      remote_dir(LocalDir(t[u])) \in rdirs
                /\ \A i \in 2..n : t[u].cmds[i].rc = "ok" =>
                      os_path_join(remote_dir(LocalDir(t[u])), ThreeFiles(t[u])[i - 1])
                          \in DOMAIN rfiles)
    /\ [][\A u \in Units :
            /\ t[u].pc \in Finished /\ t'[u].pc \in Finished =>
                  t'[u].cmds = t[u].cmds
            /\ t'[u].cmds # t[u].cmds =>
                  /\ Len(t'[u].cmds) = Len(t[u].cmds) + 1
                  /\ \A v \in Units \ {u} : t'[v] = t[v]]_vars

C5_CopyFailedOtherRelayed ==
    \E u, v \in Units :
        /\ t[u].pc = "failed" /\ Len(t[u].cmds) = 2 /\ t[u].cmds[2].rc = "nonzero"
        /\ t[v].pc = "done" /\ Len(t[v].cmds) = 4

\* Thread u knows its directory and file names.
KnowsPaths(u) ==
    t[u].pc \in { "makedirs", "open_png", "write_png", "open_yaml", "write_yaml",
                  "open_bin", "write_bin", "read_bin", "create_remote_directory",
                  "scp_png", "scp_yaml", "scp_bin" }

\* C9 as stated: two threads running at the same time never use the same
\* local path or the same remote directory, whatever the robots answer.
C9_NeverSamePath ==
    \A u, v \in Units :
        (u # v /\ KnowsPaths(u) /\ KnowsPaths(v)) =>
            /\ ThreePaths(t[u]) \cap ThreePaths(t[v]) = {}
            /\ remote_dir(LocalDir(t[u])) # remote_dir(LocalDir(t[v]))

\* C9, amended: threads whose robots report different serial numbers never
\* use the same local path or the same remote directory, and the local
\* directory of a thread whose serial number is its own holds only what that
\* thread wrote; threads whose robots report the same serial number share
\* their directory.
C9_DistinctSerialsIsolated ==
    /\ \A u, v \in Units :
        (u # v /\ KnowsPaths(u) /\ KnowsPaths(v)) =>
            IF t[u].robot_serial_number # t[v].robot_serial_number
            THEN /\ ThreePaths(t[u]) \cap ThreePaths(t[v]) = {}
                 /\ remote_dir(LocalDir(t[u])) # remote_dir(LocalDir(t[v]))
            ELSE LocalDir(t[u]) = LocalDir(t[v])
    /\ \A u \in Units :
        (OwnSerial(u) /\ t[u].pc # "idle") =>
            \A p \in DOMAIN files :
                p.dir = robot_dir(Robot(u).serial) =>
                    /\ p \in ThreePaths(t[u])
                    /\ files[p] = Written(u, p)

C9_TwoSerialsBothWrote ==
    \E u, v \in Units :
        /\ t[u].robot_serial_number # t[v].robot_serial_number
        /\ t[u].pc = "read_bin" /\ t[v].pc = "read_bin"


\* ------------------------------------------------- the script, run again

\* The maps the robot of RerunSpec can hold: two whose names differ and
\* sanitize to the same file name prefix, and a third.
RerunMaps ==
    { Map(<< "a", " " >>, I64(1)), Map(<< "a", "_" >>, I64(2)), Map(<< "b" >>, I64(3)) }

\* The script has ended and is started again in the same working directory;
\* the robots may have switched maps in the meantime, and answer afresh.
Rerun ==
    /\ main_pc \in { "completed", "aborted", "crashed" }
    /\ run < MaxRuns
    /\ run' = run + 1
    /\ main_pc' = "check_ssh"
    /\ ssh_rc' = ""
    /\ threads' = <<>>
    /\ joined' = 0
    /\ t' = [u \in DOMAIN t |-> NewFrame]
    /\ \E maps \in [DOMAIN robot -> RerunMaps] :
        robot' = [a \in DOMAIN robot |->
                    [robot[a] EXCEPT !.map = maps[a], !.answers = <<>>]]
    /\ UNCHANGED << GRPC_CHANNEL_ADDRESSES, history, fsVars, remoteVars, localVars >>

RerunInit == InitWith(1, { RobotOf(SerialA, m) : m \in RerunMaps })

RerunNext == Next \/ Rerun

RerunSpec == RerunInit /\ [][RerunNext]_vars

\* --------------------------------------------------- robots of many maps

\* The characters the map names of DataSpec are made of: inside and outside
\* [A-Za-z0-9_.-], inside and outside ASCII.
DataAlphabet == { "a", "Z", "7", "_", "-", ".", " ", "/", "é", "日" }

RECURSIVE StringsUpTo(_)
\* The strings over DataAlphabet of at most n characters.
StringsUpTo(n) ==
    IF n = 0 THEN { <<>> }
    ELSE LET shorter == StringsUpTo(n - 1)
         IN  shorter \cup { Append(w, c) : w \in shorter, c \in DataAlphabet }

\* Cursor values over the whole signed 64-bit range: the ends, the values
\* around zero and around each byte and word boundary.
DataCursors ==
    { Int64Min, << 1, 0, 0, -(Word \div 2) >>, I64(-2147483647), I64(-123456789),
      I64(-65537), I64(-65536), I64(-257), I64(-256), I64(-129), I64(-128),
      I64(-1), I64(0), I64(1), I64(127), I64(128), I64(255), I64(256),
      I64(65535), I64(65536), I64(2147483647), << 0, 0, 1, 0 >>,
      << 0, 0, Word - 1, 0 >>, << 0, 0, 0, 1 >>, << 0, 0, 0, 255 >>,
      << 0, 0, 0, 256 >>, Int64Max }

\* DataSpec: one robot, holding a map of any name and any cursor value.
DataRobots ==
    { RobotOf(SerialA, Map(name, I64(7))) : name \in StringsUpTo(MaxLen) }
    \cup { RobotOf(SerialA, Map(Lobby, c)) : c \in DataCursors }

DataInit == InitWith(1, DataRobots)

DataSpec == DataInit /\ [][Next]_vars


\* ------------------------------------------------- the local-only script

\* The except clauses of the local-only get_map_data.
L_Caught(u, frame, kind) ==
    [lt EXCEPT ![u] = [frame EXCEPT !.pc = "failed", !.err = kind]]

\* One blocking request of the local-only thread u.
L_Call(u, k, received) ==
    /\ u \in Units
    /\ lt[u].pc = RpcOrder[k]
    /\ \E o \in RpcOutcomes :
        /\ lt' = IF Answer(GRPC_CHANNEL_ADDRESSES[u], k, o) = "ok"
                 THEN [lt EXCEPT ![u] = received]
                 ELSE L_Caught(u, Called(lt[u], k), "RpcError")
        /\ robot' = Answered(GRPC_CHANNEL_ADDRESSES[u], k, o)
    /\ UNCHANGED << GRPC_CHANNEL_ADDRESSES, mainVars, t, history, fsVars, remoteVars,
                    lm, l_dirs, l_files >>

\* The serial number names the folder, which is created before the next call.
L_GetRobotSerialNumber(u) ==
    L_Call(u, 1, [Called(lt[u], 1) EXCEPT
                    !.robot_serial_number = Robot(u).serial,
                    !.folder_name = l_folder_name(Robot(u).serial),
                    !.pc = "makedirs"])

L_GetCurrentMapId(u) ==
    L_Call(u, 2, [Called(lt[u], 2) EXCEPT !.pc = RpcOrder[3]])

L_GetRobotVersion(u) ==
    L_Call(u, 3, [Called(lt[u], 3) EXCEPT !.pc = RpcOrder[4]])

L_GetPngMap(u) ==
    L_Call(u, 4, [Called(lt[u], 4) EXCEPT
                    !.response = Robot(u).map,
                    !.map_name = l_sanitize_filename(Robot(u).map.name),
                    !.pc = "open_png"])

L_PngPath(frame) == os_path_join(frame.folder_name, png_filename(frame.map_name))
L_YamlPath(frame) == os_path_join(frame.folder_name, yaml_filename(frame.map_name))
L_BinPath(frame) == os_path_join(frame.folder_name, bin_filename(frame.map_name))

\* A step of the local-only thread u on its file system.
L_LocalStep(u, at, next, d, f) ==
    /\ u \in Units
    /\ lt[u].pc = at
    /\ \/ /\ lt' = [lt EXCEPT ![u] = next]
          /\ l_dirs' = d
          /\ l_files' = f
       \/ /\ lt' = L_Caught(u, lt[u], "Exception")
          /\ UNCHANGED << l_dirs, l_files >>
    /\ UNCHANGED << envVars, mainVars, t, history, fsVars, remoteVars, lm >>

\* os.makedirs(folder_name, exist_ok=True)
L_MakeDirs(u) ==
    L_LocalStep(u, "makedirs", [lt[u] EXCEPT !.pc = RpcOrder[2]],
                l_dirs \cup { lt[u].folder_name }, l_files)

L_OpenPng(u) ==
    L_LocalStep(u, "open_png", [lt[u] EXCEPT !.pc = "write_png"],
                l_dirs, WriteFile(l_files, L_PngPath(lt[u]), Empty))

L_WritePng(u) ==
    L_LocalStep(u, "write_png",
                [lt[u] EXCEPT !.pc = "open_yaml",
                              !.saved = Append(@, png_filename(lt[u].map_name))],
                l_dirs, WriteFile(l_files, L_PngPath(lt[u]), << lt[u].response.data >>))

L_OpenYaml(u) ==
    L_LocalStep(u, "open_yaml", [lt[u] EXCEPT !.pc = "write_yaml"],
                l_dirs, WriteFile(l_files, L_YamlPath(lt[u]), Empty))

L_WriteYaml(u) ==
    L_LocalStep(u, "write_yaml",
                [lt[u] EXCEPT !.pc = "open_bin",
                              !.saved = Append(@, yaml_filename(lt[u].map_name))],
                l_dirs,
                WriteFile(l_files, L_YamlPath(lt[u]), << map_metadata(lt[u].response) >>))

L_OpenBin(u) ==
    L_LocalStep(u, "open_bin", [lt[u] EXCEPT !.pc = "write_bin"],
                l_dirs, WriteFile(l_files, L_BinPath(lt[u]), Empty))

L_WriteBin(u) ==
    L_LocalStep(u, "write_bin",
                [lt[u] EXCEPT !.pc = "read_bin",
                              !.saved = Append(@, bin_filename(lt[u].map_name))],
                l_dirs,
                WriteFile(l_files, L_BinPath(lt[u]), struct_pack_q(lt[u].response.cursor)))

\* The read-back of the cursor, after which the function returns.
L_ReadBin(u) ==
    /\ u \in Units
    /\ lt[u].pc = "read_bin"
    /\ LET binary_data == read8(l_files[L_BinPath(lt[u])])
       IN  \/ /\ Len(binary_data) = 8
              /\ lt' = [lt EXCEPT ![u] =
                          [@ EXCEPT !.pc = "done",
                                    !.cursor_value_read = struct_unpack_q(binary_data)]]
           \/ /\ Len(binary_data) # 8
              /\ lt' = L_Caught(u, lt[u], "Exception")
           \/ lt' = L_Caught(u, lt[u], "Exception")
    /\ UNCHANGED << envVars, mainVars, t, history, fsVars, remoteVars, lm, l_dirs,
                    l_files >>

l_get_map_data(u) ==
    \/ L_GetRobotSerialNumber(u)
    \/ L_MakeDirs(u)
    \/ L_GetCurrentMapId(u)
    \/ L_GetRobotVersion(u)
    \/ L_GetPngMap(u)
    \/ L_OpenPng(u)
    \/ L_WritePng(u)
    \/ L_OpenYaml(u)
    \/ L_WriteYaml(u)
    \/ L_OpenBin(u)
    \/ L_WriteBin(u)
    \/ L_ReadBin(u)

\* main of the local-only script: start a thread per address, no check first.
L_Spawn ==
    /\ lm.pc = "spawn"
    /\ Len(lm.threads) < Len(GRPC_CHANNEL_ADDRESSES)
    /\ LET u == Len(lm.threads) + 1
       IN  /\ lm' = [lm EXCEPT !.threads = Append(@, u),
                               !.pc = IF u = Len(GRPC_CHANNEL_ADDRESSES)
                                      THEN "join" ELSE "spawn"]
           /\ lt' = [lt EXCEPT ![u].pc = RpcOrder[1]]
    /\ UNCHANGED << envVars, mainVars, t, history, fsVars, remoteVars, l_dirs, l_files >>

\* main of the local-only script: wait for all threads to complete.
L_Join ==
    /\ lm.pc = "join"
    /\ lm.joined < Len(lm.threads)
    /\ lt[lm.threads[lm.joined + 1]].pc \in Finished
    /\ lm' = [lm EXCEPT !.joined = @ + 1,
                        !.pc = IF lm.joined + 1 = Len(lm.threads)
                               THEN "completed" ELSE "join"]
    /\ UNCHANGED << envVars, mainVars, t, history, fsVars, remoteVars, lt, l_dirs,
                    l_files >>

LocalNext ==
    \/ L_Spawn
    \/ L_Join
    \/ \E u \in 1..NumTargets : l_get_map_data(u)

\* EquivSpec: both scripts, each in a working directory of its own, against
\* the same robot, which answers both alike.
SerialSpaced == << "A", " ", "1" >>

EquivRobots ==
    { RobotOf(s, m) : s \in { SerialA, SerialSpaced },
                      m \in { Map(Lobby, I64(7)), Map(<< "a", " ", "b" >>, I64(-1)) } }

EquivInit == InitWith(1, EquivRobots)

EquivNext == Next \/ LocalNext

EquivSpec == EquivInit /\ [][EquivNext]_vars


\* ---------------------------------------------- properties of the file names

\* The character set [A-Za-z0-9_.-].
AsciiSafe == AsciiLetters \cup AsciiDigits \cup { "_", ".", "-" }

\* Thread u has received the map and sanitized its name.
HasMapName(u) == t[u].pc \in { "makedirs", "open_png", "write_png", "open_yaml",
                               "write_yaml", "open_bin", "write_bin", "read_bin",
                               "create_remote_directory", "scp_png", "scp_yaml",
                               "scp_bin", "done" }

\* C1 as stated: the sanitized name is as long as the name, holds only
\* characters of [A-Za-z0-9_.-], keeps each character of that set where it
\* is and has '_' in place of every other character.
C1_OnlyAsciiSafe ==
    \A u \in Units :
        HasMapName(u) =>
            LET name == t[u].response.name
                out == t[u].map_name
            IN  /\ Len(out) = Len(name)
                /\ \A i \in 1..Len(name) :
                    /\ out[i] \in AsciiSafe
                    /\ out[i] = IF name[i] \in AsciiSafe THEN name[i] ELSE "_"

\* C1, amended: the sanitized name is as long as the name; each character of
\* [A-Za-z0-9_.-] and each alphanumeric character outside ASCII (which \w
\* matches too) is kept where it is, every other character is replaced by '_';
\* so the result holds only characters of [A-Za-z0-9_.-] when the name holds
\* no alphanumeric character outside ASCII.
C1_SanitizeKeepsWordChars ==
    \A u \in Units :
        HasMapName(u) =>
            LET name == t[u].response.name
                out == t[u].map_name
            IN  /\ Len(out) = Len(name)
                /\ \A i \in 1..Len(name) :
                    /\ out[i] \in AsciiSafe \cup UnicodeAlnum
                    /\ out[i] = IF name[i] \in AsciiSafe \cup UnicodeAlnum
                                THEN name[i] ELSE "_"
                /\ (\A i \in 1..Len(name) : name[i] \notin UnicodeAlnum) =>
                      \A i \in 1..Len(out) : out[i] \in AsciiSafe

C1_MixedName ==
    \E u \in Units :
        /\ HasMapName(u)
        /\ t[u].response.name = << "é", "/" >>
        /\ t[u].map_name = << "é", "_" >>

\* ------------------------------------------------- properties of the cursor

\* Thread u has read the cursor back.
HasReadBack(u) ==
    \/ t[u].pc \in { "create_remote_directory", "scp_png", "scp_yaml", "scp_bin", "done" }
    \/ t[u].pc = "failed" /\ t[u].cmds # <<>>

IsByte(b) == b \in 0..(Byte - 1)

\* C6: whatever 64-bit cursor value the robot returns, the cursor file
\* written holds exactly 8 bytes and the value decoded from the 8 bytes read
\* back right after is that value. (One thread writes the file here; threads
\* that share a file are the subject of C9.)
C6_CursorRoundTrip ==
    \A u \in Units :
        /\ IsInt64(Robot(u).map.cursor)
        /\ Len(t[u].saved) = 3 =>
              /\ Len(files[BinPath(t[u])]) = 8
              /\ \A i \in 1..8 : IsByte(files[BinPath(t[u])][i])
        /\ HasReadBack(u) =>
              /\ t[u].cursor_value_read = t[u].response.cursor
              /\ t[u].cursor_value_read = Robot(u).map.cursor

C6_ReadBackMin ==
    \E u \in Units : HasReadBack(u) /\ t[u].cursor_value_read = Int64Min

\* -123456789, the cursor value of the spec's example.
ExampleCursor == I64(-123456789)

\* C7 as stated: -123456789 is written as EB 32 A4 F9 FF FF FF FF, and these
\* bytes decode to -123456789.
C7_BytesAsStated ==
    \A u \in Units :
        (Len(t[u].saved) = 3 /\ t[u].response.cursor = ExampleCursor) =>
            /\ files[BinPath(t[u])] = << 235, 50, 164, 249, 255, 255, 255, 255 >>
            /\ struct_unpack_q(<< 235, 50, 164, 249, 255, 255, 255, 255 >>) = ExampleCursor

\* C7, amended: the cursor is written in two's complement, least significant
\* byte first; -123456789 is written as EB 32 A4 F8 FF FF FF FF and read back
\* from these bytes as -123456789 (1 is 01 00 .. 00, -1 is FF .. FF, -2^63
\* is 00 .. 00 80, 2^63-1 is FF .. FF 7F).
C7_LittleEndianTwosComplement ==
    \A u \in Units :
        Len(t[u].saved) = 3 =>
            LET bytes == files[BinPath(t[u])]
                v == t[u].response.cursor
            IN  /\ v = ExampleCursor =>
                      /\ bytes = << 235, 50, 164, 248, 255, 255, 255, 255 >>
                      /\ HasReadBack(u) => t[u].cursor_value_read = ExampleCursor
                /\ v = I64(1) => bytes = << 1, 0, 0, 0, 0, 0, 0, 0 >>
                /\ v = I64(256) => bytes = << 0, 1, 0, 0, 0, 0, 0, 0 >>
                /\ v = I64(-1) => bytes = << 255, 255, 255, 255, 255, 255, 255, 255 >>
                /\ v = Int64Min => bytes = << 0, 0, 0, 0, 0, 0, 0, 128 >>
                /\ v = Int64Max => bytes = << 255, 255, 255, 255, 255, 255, 255, 127 >>
                /\ (bytes[8] >= 128) <=> (v[4] < 0)

C7_ExampleWritten ==
    \E u \in Units :
        /\ HasReadBack(u)
        /\ t[u].response.cursor = ExampleCursor
        /\ files[BinPath(t[u])] = << 235, 50, 164, 248, 255, 255, 255, 255 >>

\* ------------------------------------------------- properties of the reruns

\* Every get_map_data run against u's robot so far succeeded, and one did.
OnlySuccessfulRuns(u) ==
    /\ history[u] # <<>>
    /\ \A i \in 1..Len(history[u]) : history[u][i].ok

\* The files in the local directory of u's robot.
DirFiles(u) == { p \in DOMAIN files : p.dir = "Kachaka_" \o Str(Robot(u).serial) }

\* The three files a run with file name prefix x leaves.
FilesOfPrefix(x) == { x \o ".png", x \o "_metadata.yaml", x \o "_metadata.bin" }

\* The local directory holds the latest run's three files, with its contents.
LatestFilesThere(u) ==
    LET last == history[u][Len(history[u])]
        d == "Kachaka_" \o Str(Robot(u).serial)
    IN  /\ files[os_path_join(d, last.prefix \o ".png")] = << last.map.data >>
        /\ files[os_path_join(d, last.prefix \o "_metadata.yaml")]
              = << map_metadata(last.map) >>
        /\ files[os_path_join(d, last.prefix \o "_metadata.bin")]
              = struct_pack_q(last.map.cursor)

\* C8 as stated: after any sequence of successful runs against a robot, map
\* changes in between included, its directory holds exactly three files, the
\* latest run's.
C8_ExactlyThreeFiles ==
    \A u \in Units :
        (main_pc = "completed" /\ OnlySuccessfulRuns(u)) =>
            /\ Cardinality(DirFiles(u)) = 3
            /\ LatestFilesThere(u)

\* C8, amended: after any sequence of successful runs against a robot, its
\* directory holds the three files of every sanitized map name exported so
\* far - exactly three when that name never changed - and those of the latest
\* run hold the latest run's contents: a rerun overwrites the earlier files
\* when the sanitized map name is the same and leaves them behind otherwise.
C8_ThreeFilesPerMapName ==
    \A u \in Units :
        (main_pc = "completed" /\ OnlySuccessfulRuns(u)) =>
            LET prefixes == { history[u][i].prefix : i \in 1..Len(history[u]) }
            IN  /\ { p.file : p \in DirFiles(u) }
                      = UNION { FilesOfPrefix(x) : x \in prefixes }
                /\ Cardinality(DirFiles(u)) = 3 * Cardinality(prefixes)
                /\ LatestFilesThere(u)

C8_RerunSameSanitizedName ==
    \E u \in Units :
        /\ main_pc = "completed"
        /\ OnlySuccessfulRuns(u)
        /\ Len(history[u]) = 2
        /\ history[u][1].map.name # history[u][2].map.name
        /\ history[u][1].prefix = history[u][2].prefix
        /\ Cardinality(DirFiles(u)) = 3

\* ------------------------------------------- properties of the two scripts

BothReturned(u) == t[u].pc \in Finished /\ lt[u].pc \in Finished

\* C10 as stated: on the same responses both scripts issue the same calls in
\* the same order and leave the same local file system.
C10_SameLocalState ==
    \A u \in Units :
        BothReturned(u) =>
            /\ t[u].calls = lt[u].calls
            /\ dirs = l_dirs
            /\ files = l_files

\* The script's get_map_data raised on the local file system.
LocalIOFailed(frame) == frame.pc = "failed" /\ frame.err = "Exception" /\ frame.saved # ThreeFiles(frame)

\* The (file name, content) pairs of the files of directory d in f.
Listing(f, d) == { << p.file, f[p] >> : p \in { q \in DOMAIN f : q.dir = d } }

\* C10, amended: on the same responses, and with no error on the local file
\* system, both scripts issue the same calls in the same order and, after a
\* complete fetch, hold the same three file names with the same contents, in
\* directories of different names: Kachaka_<serial> for the transfer script,
\* the sanitized serial number for the local-only script. The local-only
\* script creates its directory right after the first call, and so leaves an
\* empty directory when a later call fails, where the transfer script leaves
\* none.
C10_SameFilesOtherDirectory ==
    \A u \in Units :
        (BothReturned(u) /\ ~ LocalIOFailed(t[u]) /\ lt[u].err # "Exception") =>
            LET d == "Kachaka_" \o Str(Robot(u).serial)
                ld == Str(re_sub(Robot(u).serial))
                n == Len(t[u].calls)
            IN  /\ t[u].calls = lt[u].calls
                /\ t[u].calls = SubSeq(RpcOrder, 1, n)
                /\ d # ld
                /\ (lt[u].pc = "failed") <=> (t[u].err = "RpcError")
                /\ lt[u].pc = "done" =>
                      /\ n = 4
                      /\ d \in dirs /\ ld \in l_dirs
                      /\ Listing(files, d) = Listing(l_files, ld)
                      /\ Cardinality(Listing(files, d)) = 3
                /\ lt[u].pc = "failed" =>
                      /\ d \notin dirs
                      /\ Listing(files, d) = {} /\ Listing(l_files, ld) = {}
                      /\ (ld \in l_dirs) <=> (n > 1)

C10_BothFetched ==
    \E u \in Units :
        /\ t[u].pc = "done" /\ lt[u].pc = "done"
        /\ Robot(u).serial = SerialSpaced
        /\ Cardinality(DOMAIN files) = 3 /\ Cardinality(DOMAIN l_files) = 3

=============================================================================
